---- MODULE Spec2Model ----
(***************************************************************************)
(* Model of the simulation engine of probi-oh (src/utils/simulation.ts):   *)
(* SimulationBranch, Simulation.iterate with its depth-first free-card     *)
(* search, the result accessors and the serialise / deserialise pair.      *)
(* GameState, the condition evaluator and the free-card processor are      *)
(* imported by simulation.ts from modules outside src/; they are modelled  *)
(* from their contract in spec.md.                                         *)
(***************************************************************************)
EXTENDS Integers, Sequences, FiniteSets, TLC

VARIABLES original, gameState, conditions, branches, pc, ci, stack, iterations,
          restored, foreign, nextId

\* State of one useLocalStorage hook: the value React holds for it, the entry
\* of localStorage under its key, its initialValue argument, whether the
\* mount effect has run, and the number of calls made through it.
VARIABLES storedValue, item, initialValue, mounted, calls

simVars == <<original, gameState, conditions, branches, pc, ci, stack, iterations,
             restored, foreign, nextId>>

hookVars == <<storedValue, item, initialValue, mounted, calls>>

vars == <<original, gameState, conditions, branches, pc, ci, stack, iterations,
          restored, foreign, nextId, storedValue, item, initialValue, mounted, calls>>

(* ---------------------------- bounds ----------------------------------- *)
MaxHand == 2
MaxDeck == 2
MaxConditions == 2
MaxIterations == 2

\* Calls of setValue and clearStorage made through one hook.
MaxCalls == 3

(* JavaScript's undefined, as returned by Array.prototype.find / Map.get *)
undefined == [undefined |-> TRUE]

\* The exception a decoder throws on input it cannot decode.
DecodeError == [error |-> "decode"]

(* ------------------------- cards (./card) ------------------------------ *)
\* Card instances: id is the object identity, the rest is the card's value.
\* draw: cards the free card draws when processed; played: whether processing
\* plays it out of the hand (the processor mocked in the Simulation tests
\* leaves the hand as it is).
NormalCard(i, n) ==
    [id |-> i, name |-> n, isFree |-> FALSE, oncePerTurn |-> FALSE, draw |-> 0, played |-> FALSE]

FreeCard(i, n, opt, d, pl) ==
    [id |-> i, name |-> n, isFree |-> TRUE, oncePerTurn |-> opt, draw |-> d, played |-> pl]

CardPool == { NormalCard(1, "A"),
              FreeCard(2, "H", FALSE, 1, TRUE), FreeCard(3, "H", FALSE, 1, TRUE),
              FreeCard(4, "K", FALSE, 0, FALSE) }

\* All sequences of pairwise distinct elements of S of length at most n.
DistinctSeqs(S, n) ==
    { s \in UNION { [1..k -> S] : k \in 0..n } :
        \A i, j \in 1..Len(s) : i # j => s[i] # s[j] }

Range(s) == { s[i] : i \in 1..Len(s) }

\* Array.prototype.includes on object references
Includes(s, x) == \E i \in 1..Len(s) : s[i].id = x.id

(* ---------------------- conditions (./condition) ----------------------- *)
\* A condition object: id is the object identity (the Map key), val the
\* structural content ("the hand holds a card named val").
ConditionPool == { [id |-> 1, val |-> "A"], [id |-> 2, val |-> "A"], [id |-> 3, val |-> "K"] }

evaluateCondition(condition, hand, deckList) ==
    \E i \in 1..Len(hand) : hand[i].name = condition.val

serialiseCondition(condition) == <<"card", condition.val>>

\* A serialised condition of an unknown kind cannot be decoded.
deserialiseCondition(serialised, freshId) ==
    IF serialised[1] # "card" THEN DecodeError
    ELSE [id |-> freshId, val |-> serialised[2]]

(* ---------------------- game state (./game-state) ---------------------- *)
\* A GameState object: ref is the object identity, the rest its contents.
\* Cards are immutable and shared by reference between copies.
GameState(ref, hand, deck, played) ==
    [ref |-> ref, hand |-> hand, deck |-> deck, cardsPlayedThisTurn |-> played]

\* A new object (identity ref) with the contents of gs.
deepCopy(gs, ref) == GameState(ref, gs.hand, gs.deck, gs.cardsPlayedThisTurn)

freeCardsInHand(gs) == SelectSeq(gs.hand, LAMBDA c : c.isFree)

freeCardsPlayedThisTurn(gs) == SelectSeq(gs.cardsPlayedThisTurn, LAMBDA c : c.isFree)

playCard(gs, card) ==
    GameState(gs.ref, SelectSeq(gs.hand, LAMBDA c : c.id # card.id), gs.deck,
              Append(gs.cardsPlayedThisTurn, card))

drawCards(gs, n) ==
    GameState(gs.ref, gs.hand \o SubSeq(gs.deck, 1, n), SubSeq(gs.deck, n + 1, Len(gs.deck)),
              gs.cardsPlayedThisTurn)

SerialisedCard(c) == <<c.name, c.isFree, c.oncePerTurn, c.draw, c.played>>

serialiseGameState(gs) ==
    [hand |-> [i \in 1..Len(gs.hand) |-> SerialisedCard(gs.hand[i])],
     deck |-> [i \in 1..Len(gs.deck) |-> SerialisedCard(gs.deck[i])],
     cardsPlayedThisTurn |-> [i \in 1..Len(gs.cardsPlayedThisTurn) |->
                                 SerialisedCard(gs.cardsPlayedThisTurn[i])]]

\* Decoding builds fresh card objects; base is the last identity in use.
DecodeCards(s, base) ==
    [i \in 1..Len(s) |->
        [id |-> base + i, name |-> s[i][1], isFree |-> s[i][2],
         oncePerTurn |-> s[i][3], draw |-> s[i][4], played |-> s[i][5]]]

\* Objects GameState.deserialize creates: the cards and the game state.
GameStateSize(s) == Len(s.hand) + Len(s.deck) + Len(s.cardsPlayedThisTurn) + 1

CardNames == { c.name : c \in CardPool }

ValidCards(s) == \A i \in 1..Len(s) : s[i][1] \in CardNames

\* A serialised game state that references a card that does not exist cannot
\* be decoded.
deserializeGameState(s, base) ==
    IF ~(ValidCards(s.hand) /\ ValidCards(s.deck) /\ ValidCards(s.cardsPlayedThisTurn))
    THEN DecodeError
    ELSE GameState(base + GameStateSize(s),
                   DecodeCards(s.hand, base),
                   DecodeCards(s.deck, base + Len(s.hand)),
                   DecodeCards(s.cardsPlayedThisTurn, base + Len(s.hand) + Len(s.deck)))

(* ------------- free cards (./free-card-processor) ---------------------- *)
freeCardIsUsable(gs, card) ==
    /\ card.isFree
    /\ Len(gs.deck) >= card.draw
    /\ card.oncePerTurn =>
         ~ \E i \in 1..Len(freeCardsPlayedThisTurn(gs)) :
               freeCardsPlayedThisTurn(gs)[i].name = card.name

\* Mutates the game state object the branch holds, in place: plays the card,
\* then draws.
processFreeCard(branch, card) ==
    [branch EXCEPT !.gameState =
        IF card.played THEN drawCards(playCard(@, card), card.draw)
                       ELSE drawCards(@, card.draw)]

(* ------------------------ SimulationBranch ----------------------------- *)
\* ref: identity of the copy the constructor takes. runs counts the calls of
\* the evaluator made for this branch.
\* Variant: the constructor keeps the game state it is given instead of a copy.
SimulationBranch_NoCopy(gs, condition, ref) ==
    [gameState |-> gs, result |-> FALSE, condition |-> condition, runs |-> 0]

SimulationBranch(gs, condition, ref) ==
    [gameState |-> deepCopy(gs, ref), result |-> FALSE, condition |-> condition, runs |-> 0]

run(branch) ==
    [branch EXCEPT
        !.result = evaluateCondition(branch.condition, branch.gameState.hand,
                                     branch.gameState.deck),
        !.runs = @ + 1]

serialiseBranch(branch) ==
    [result |-> branch.result,
     gameState |-> serialiseGameState(branch.gameState),
     condition |-> serialiseCondition(branch.condition)]

\* Objects SimulationBranch.deserialise creates: the decoded game state with
\* its cards, the decoded condition and the constructor's copy.
BranchSize(serialisedBranch) == GameStateSize(serialisedBranch.gameState) + 2

\* Variant: the decoded branch is run instead of taking the persisted result.
deserialiseBranch_Reruns(serialisedBranch, base) ==
    LET gs == deserializeGameState(serialisedBranch.gameState, base)
        condition == deserialiseCondition(serialisedBranch.condition,
                                          base + GameStateSize(serialisedBranch.gameState) + 1)
    IN  IF gs = DecodeError \/ condition = DecodeError THEN DecodeError
        ELSE run(SimulationBranch(gs, condition, base + BranchSize(serialisedBranch)))

\* Variant: the persisted result is not written over the constructor's default.
deserialiseBranch_KeepsDefault(serialisedBranch, base) ==
    LET gs == deserializeGameState(serialisedBranch.gameState, base)
        condition == deserialiseCondition(serialisedBranch.condition,
                                          base + GameStateSize(serialisedBranch.gameState) + 1)
    IN  IF gs = DecodeError \/ condition = DecodeError THEN DecodeError
        ELSE SimulationBranch(gs, condition, base + BranchSize(serialisedBranch))

\* base: last object identity in use; the decoded game state takes the next
\* identities, then the decoded condition, then the constructor's copy.
\* An exception of a decoder leaves the function: no branch is built.
deserialiseBranch(serialisedBranch, base) ==
    LET gs == deserializeGameState(serialisedBranch.gameState, base)
        condition == deserialiseCondition(serialisedBranch.condition,
                                          base + GameStateSize(serialisedBranch.gameState) + 1)
        branch == SimulationBranch(gs, condition, base + BranchSize(serialisedBranch))
    IN  IF gs = DecodeError \/ condition = DecodeError THEN DecodeError
        ELSE [branch EXCEPT !.result = serialisedBranch.result]

(* ------------- Map<BaseCondition, SimulationBranch[]> ------------------ *)
\* An insertion-ordered list of entries, keyed by the condition's identity.
\* Variant: keys are equal when the conditions are structurally equal.
SameKey_ByValue(a, b) == a.val = b.val

\* Key equality of Map on objects: the same object.
SameKey(a, b) == a.id = b.id

MapHas(m, k) == \E i \in 1..Len(m) : SameKey(m[i].key, k)

MapIndex(m, k) == CHOOSE i \in 1..Len(m) : SameKey(m[i].key, k)

MapGet(m, k) == IF MapHas(m, k) THEN m[MapIndex(m, k)].val ELSE undefined

\* Variant: the list of the condition is set to the new branch alone.
MapPush_Replace(m, k, branch) ==
    LET m1 == IF MapHas(m, k) THEN m ELSE Append(m, [key |-> k, val |-> <<>>])
        i  == MapIndex(m1, k)
    IN  [m1 EXCEPT ![i].val = <<branch>>]

\* Variant: a new branch is put in front of the list instead of at its end.
MapPush_Prepend(m, k, branch) ==
    LET m1 == IF MapHas(m, k) THEN m ELSE Append(m, [key |-> k, val |-> <<>>])
        i  == MapIndex(m1, k)
    IN  [m1 EXCEPT ![i].val = <<branch>> \o @]

MapPush(m, k, branch) ==
    LET m1 == IF MapHas(m, k) THEN m ELSE Append(m, [key |-> k, val |-> <<>>])
        i  == MapIndex(m1, k)
    IN  [m1 EXCEPT ![i].val = Append(@, branch)]

\* Variant: the branch is recorded without being run.
runBranch_NoRun(m, branch) == MapPush(m, branch.condition, branch)

runBranch(m, branch) == MapPush(m, run(branch).condition, run(branch))

\* Array.prototype.find with the predicates used here: the first branch whose
\* result is `wanted`, or undefined.
\* Variant: the last element that matches instead of the first.
Find_Last(s, wanted) ==
    IF \E i \in 1..Len(s) : s[i].result = wanted
    THEN s[CHOOSE i \in 1..Len(s) :
              /\ s[i].result = wanted
              /\ \A j \in (i + 1)..Len(s) : s[j].result # wanted]
    ELSE undefined

Find(s, wanted) ==
    IF \E i \in 1..Len(s) : s[i].result = wanted
    THEN s[CHOOSE i \in 1..Len(s) :
              /\ s[i].result = wanted
              /\ \A j \in 1..(i - 1) : s[j].result # wanted]
    ELSE undefined

(* ------------------------ result accessors ----------------------------- *)
\* Variant: looks at branches[0] only instead of searching the list.
successfulBranches_FirstOnly(m) ==
    [i \in 1..Len(m) |->
        <<m[i].key, IF m[i].val[1].result THEN m[i].val[1] ELSE undefined>>]

successfulBranches(m) ==
    [i \in 1..Len(m) |-> <<m[i].key, Find(m[i].val, TRUE)>>]

\* Variant: the predicate of find is not negated.
failedBranches_NotNegated(m) ==
    [i \in 1..Len(m) |-> <<m[i].key, Find(m[i].val, TRUE)>>]

failedBranches(m) ==
    [i \in 1..Len(m) |-> <<m[i].key, Find(m[i].val, FALSE)>>]

result(m) ==
    \E i \in 1..Len(successfulBranches(m)) :
        /\ successfulBranches(m)[i][2] # undefined
        /\ successfulBranches(m)[i][2].result

(* -------------------- serialise / deserialise -------------------------- *)
RECURSIVE Flat(_)
Flat(ss) == IF ss = <<>> THEN <<>> ELSE Head(ss) \o Flat(Tail(ss))

serialise(gs, conds, m) ==
    [gameState |-> serialiseGameState(gs),
     conditions |-> [i \in 1..Len(conds) |-> serialiseCondition(conds[i])],
     branches |-> Flat([i \in 1..Len(m) |->
                          [j \in 1..Len(m[i].val) |-> serialiseBranch(m[i].val[j])]])]

RECURSIVE DecodeBranches(_, _)
DecodeBranches(sbs, base) ==
    IF sbs = <<>> THEN <<>>
    ELSE <<deserialiseBranch(Head(sbs), base)>>
         \o DecodeBranches(Tail(sbs), base + BranchSize(Head(sbs)))

RECURSIVE InsertAll(_, _)
InsertAll(m, bs) ==
    IF bs = <<>> THEN m ELSE InsertAll(MapPush(m, Head(bs).condition, Head(bs)), Tail(bs))

RECURSIVE IdsUsed(_)
IdsUsed(sbs) ==
    IF sbs = <<>> THEN 0 ELSE BranchSize(Head(sbs)) + IdsUsed(Tail(sbs))

\* Variant: a branch that fails to decode is caught and left out.
deserialise_SkipsMalformed(s, base) ==
    LET gs    == deserializeGameState(s.gameState, base)
        b1    == base + GameStateSize(s.gameState) + 1
        conds == [i \in 1..Len(s.conditions) |-> deserialiseCondition(s.conditions[i], b1 + i)]
        b2    == b1 + Len(s.conditions)
        bs    == SelectSeq(DecodeBranches(s.branches, b2), LAMBDA b : b # DecodeError)
    IN  IF gs = DecodeError \/ (\E i \in 1..Len(conds) : conds[i] = DecodeError)
        THEN DecodeError
        ELSE [gameState |-> deepCopy(gs, b1), conditions |-> conds,
              branches |-> InsertAll(<<>>, bs), nextId |-> b2 + IdsUsed(s.branches) + 1]

\* The decoders are called in the order of the code and nothing catches what
\* they throw: the first failure leaves deserialise with the decode error.
deserialise(s, base) ==
    LET gs    == deserializeGameState(s.gameState, base)
        b1    == base + GameStateSize(s.gameState) + 1
        conds == [i \in 1..Len(s.conditions) |-> deserialiseCondition(s.conditions[i], b1 + i)]
        b2    == b1 + Len(s.conditions)
        bs    == DecodeBranches(s.branches, b2)
    IN  IF gs = DecodeError \/ (\E i \in 1..Len(conds) : conds[i] = DecodeError)
        THEN DecodeError
        ELSE IF \E k \in 1..Len(bs) : bs[k] = DecodeError
        THEN DecodeError
        ELSE [gameState |-> deepCopy(gs, b1), conditions |-> conds,
              branches |-> InsertAll(<<>>, bs), nextId |-> b2 + IdsUsed(s.branches) + 1]

(* -------------------- serialised input from outside -------------------- *)
\* A card entry that names no existing card, a condition of no known kind.
BadCard == <<"?", FALSE, FALSE, 0, FALSE>>

BadCondition == <<"bad", "A">>

BadGameState(sgs) == [sgs EXCEPT !.deck = Append(@, BadCard)]

\* First and last position of a list of n elements.
Ends(n) == {1, n} \cap (1..n)

\* The ways a serialised simulation s is altered before it is read back.
Alterations(s) ==
    { [kind |-> "gameState", at |-> 0] }
    \cup { [kind |-> "condition", at |-> i] : i \in Ends(Len(s.conditions)) }
    \cup { [kind |-> k, at |-> n] :
             k \in {"branchGameState", "branchCondition", "branchResult"},
             n \in Ends(Len(s.branches)) }

Altered(s, how) ==
    CASE how.kind = "gameState" -> [s EXCEPT !.gameState = BadGameState(@)]
      [] how.kind = "condition" -> [s EXCEPT !.conditions[how.at] = BadCondition]
      [] how.kind = "branchGameState" ->
            [s EXCEPT !.branches[how.at].gameState = BadGameState(@)]
      [] how.kind = "branchCondition" ->
            [s EXCEPT !.branches[how.at].condition = BadCondition]
      [] how.kind = "branchResult" ->
            [s EXCEPT !.branches[how.at].result = ~@]

(* ------------------ useLocalStorage: values and JSON -------------------- *)
\* Values of the type parameter T: numbers, arrays of ones, and objects with
\* a property a, an optional property b and an optional property "0"
\* (Absent marks a property the object does not have).
Absent == -1

Number(n) == [t |-> "number", n |-> n]

Array(len) == [t |-> "array", len |-> len]

Object(a, b, zero) == [t |-> "object", a |-> a, b |-> b, zero |-> zero]

Numbers == { Number(n) : n \in 0..1 }

Arrays == { Array(len) : len \in 0..1 }

Objects == { Object(a, b, Absent) : a \in 0..1, b \in {Absent, 0, 1} }

Values == Numbers \cup Arrays \cup Objects

\* The values of the type of v.
SameType(v) == { w \in Values : w.t = v.t }

Digit(n) == IF n = 0 THEN "0" ELSE "1"

\* JSON.stringify: the text of a value, as its sequence of tokens.
Stringify(v) ==
    CASE v.t = "number" -> <<Digit(v.n)>>
      [] v.t = "array"  -> <<"[">> \o [i \in 1..v.len |-> "1"] \o <<"]">>
      [] v.t = "object" ->
            <<"{", "a", Digit(v.a)>>
            \o (IF v.b = Absent THEN <<>> ELSE <<"b", Digit(v.b)>>)
            \o <<"}">>

\* JSON.parse throws on a text that is not the JSON text of a value.
Parsable(text) == \E v \in Values : Stringify(v) = text

Parse(text) == CHOOSE v \in Values : Stringify(v) = text

\* localStorage.getItem(key): null when the key is absent, else its string.
NoItem == [present |-> FALSE]

Item(text) == [present |-> TRUE, text |-> text]

\* Strings another writer may have left under the key: the JSON text of any
\* value, the empty string, and a text that is not JSON.
Texts == { Stringify(v) : v \in Values } \cup { <<>>, <<"{">> }

\* { ...initialValue, ...parsedItem }: the properties of parsedItem win; a
\* number spreads to nothing and an array to its indices.
Merge(init, parsedItem) ==
    CASE parsedItem.t = "number" -> init
      [] parsedItem.t = "array"  ->
            [init EXCEPT !.zero = IF parsedItem.len > 0 THEN 1 ELSE @]
      [] parsedItem.t = "object" ->
            [init EXCEPT !.a = parsedItem.a,
                         !.b = IF parsedItem.b = Absent THEN @ ELSE parsedItem.b,
                         !.zero = IF parsedItem.zero = Absent THEN @ ELSE parsedItem.zero]

\* readValue() for the entry it and the hook's initialValue init.
readValue(it, init) ==
    IF ~it.present \/ it.text = <<>> THEN init
    ELSE IF ~Parsable(it.text) THEN init
    ELSE IF init.t = "array"
         THEN (IF Parse(it.text).t = "array" THEN Parse(it.text) ELSE Array(0))
    ELSE IF init.t = "object" THEN Merge(init, Parse(it.text))
    ELSE Parse(it.text)

(* ------------------- Simulation as a state machine --------------------- *)
\* Variant: the negation in front of usedCards.includes is missing.
Frame_IncludesNotNegated(gs, condition, usedCards) ==
    [gameState |-> gs, condition |-> condition, usedCards |-> usedCards,
     freeCards |-> SelectSeq(freeCardsInHand(gs),
                     LAMBDA card : freeCardIsUsable(gs, card) /\ Includes(usedCards, card)),
     i |-> 1]

\* Variant: used cards are not excluded from the candidates.
Frame_NoUsedFilter(gs, condition, usedCards) ==
    [gameState |-> gs, condition |-> condition, usedCards |-> usedCards,
     freeCards |-> SelectSeq(freeCardsInHand(gs), LAMBDA card : freeCardIsUsable(gs, card)),
     i |-> 1]

\* One activation of generateFreeCardPermutations: its arguments, the
\* filtered freeCards list and the position i of the for-of loop.
Frame(gs, condition, usedCards) ==
    [gameState |-> gs, condition |-> condition, usedCards |-> usedCards,
     freeCards |-> SelectSeq(freeCardsInHand(gs),
                     LAMBDA card : freeCardIsUsable(gs, card) /\ ~Includes(usedCards, card)),
     i |-> 1]

\* In-place mutation seen through every reference to the mutated object:
\* a holder of the object obj (same ref) sees its new contents.
Written(gs, obj) == IF gs.ref = obj.ref THEN obj ELSE gs

WrittenBranches(m, obj) ==
    [i \in 1..Len(m) |->
        [key |-> m[i].key,
         val |-> [j \in 1..Len(m[i].val) |->
                    [m[i].val[j] EXCEPT !.gameState = Written(@, obj)]]]]

WrittenStack(stk, obj) ==
    [n \in 1..Len(stk) |-> [stk[n] EXCEPT !.gameState = Written(@, obj)]]

Top(stk) == stk[Len(stk)]

Pop(stk) == SubSeq(stk, 1, Len(stk) - 1)

\* First object identity after the cards and conditions of the pools.
FirstRef == Cardinality(CardPool) + Cardinality(ConditionPool) + 1

\* original is the caller's game state handed to the constructor.
Init ==
    /\ original \in { GameState(FirstRef, h, d, <<>>) :
                        h \in DistinctSeqs(CardPool, MaxHand),
                        d \in DistinctSeqs(CardPool, MaxDeck) }
    /\ Range(original.hand) \cap Range(original.deck) = {}
    /\ gameState = deepCopy(original, FirstRef + 1)
    /\ conditions \in UNION { [1..n -> ConditionPool] : n \in 0..MaxConditions }
    /\ branches = <<>>
    /\ pc = "idle"
    /\ ci = 0
    /\ stack = <<>>
    /\ iterations = 0
    /\ restored = undefined
    /\ foreign = undefined
    /\ nextId = FirstRef + 2
    /\ initialValue = Number(0)
    /\ item = NoItem
    /\ storedValue = readValue(item, initialValue)
    /\ mounted = FALSE
    /\ calls = 0

\* The forEach callback of iterate() has returned for conditions[ci].
NextCondition ==
    /\ ci' = ci + 1
    /\ pc' = IF ci + 1 > Len(conditions) THEN "done" ELSE "forEach"

\* iterate() is called (on a fresh simulation, or again on a finished one).
\* A snapshot is the last act of a run: iterate() does not read it, so the
\* runs that would follow it are the runs without it.
Iterate ==
    /\ pc \in {"idle", "done"}
    /\ restored = undefined
    /\ foreign = undefined
    /\ iterations < MaxIterations
    /\ iterations' = iterations + 1
    /\ ci' = 1
    /\ pc' = IF Len(conditions) = 0 THEN "done" ELSE "forEach"
    /\ UNCHANGED <<original, gameState, conditions, branches, stack, restored, foreign, nextId>>
    /\ UNCHANGED hookVars

\* Variant: a success leaves the whole loop over the conditions.
ForEachCondition_StopsAll ==
    /\ pc = "forEach"
    /\ LET condition == conditions[ci]
           branch == SimulationBranch(gameState, condition, nextId)
       IN  /\ branches' = runBranch(branches, branch)
           /\ IF result(branches')
              THEN /\ ci' = Len(conditions) + 1
                   /\ pc' = "done"
                   /\ stack' = <<>>
              ELSE /\ stack' = <<Frame(gameState, condition, <<>>)>>
                   /\ pc' = "perm"
                   /\ ci' = ci
    /\ nextId' = nextId + 1
    /\ UNCHANGED <<original, gameState, conditions, iterations, restored, foreign>>
    /\ UNCHANGED hookVars

\* The forEach callback up to the call of generateFreeCardPermutations.
ForEachCondition ==
    /\ pc = "forEach"
    /\ LET condition == conditions[ci]
           branch == SimulationBranch(gameState, condition, nextId)
       IN  /\ branches' = runBranch(branches, branch)
           /\ IF result(branches')
              THEN /\ NextCondition
                   /\ stack' = <<>>
              ELSE /\ stack' = <<Frame(gameState, condition, <<>>)>>
                   /\ pc' = "perm"
                   /\ ci' = ci
    /\ nextId' = nextId + 1
    /\ UNCHANGED <<original, gameState, conditions, iterations, restored, foreign>>
    /\ UNCHANGED hookVars

\* Variant: the deeper call gets the usedCards of its caller.
UsedAfter_Same(usedCards, freeCard) == usedCards

\* [...usedCards, freeCard]
UsedAfter(usedCards, freeCard) == Append(usedCards, freeCard)

\* Variant: the recursion continues from the incoming gameState instead of
\* the state of the branch just processed.
PermStep_RecurseOnParentState ==
    /\ pc = "perm"
    /\ stack # <<>>
    /\ Top(stack).i <= Len(Top(stack).freeCards)
    /\ LET f == Top(stack)
           freeCard == f.freeCards[f.i]
           newGameState == deepCopy(f.gameState, nextId)
           branch == processFreeCard(SimulationBranch(newGameState, f.condition, nextId + 1),
                                     freeCard)
           obj == branch.gameState
           advanced == [WrittenStack(stack, obj) EXCEPT ![Len(stack)].i = f.i + 1]
       IN  IF ~freeCardIsUsable(f.gameState, freeCard)
           THEN /\ stack' = [stack EXCEPT ![Len(stack)].i = f.i + 1]
                /\ UNCHANGED <<original, gameState, branches, pc, ci, nextId>>
           ELSE /\ original' = Written(original, obj)
                /\ gameState' = Written(gameState, obj)
                /\ branches' = runBranch(WrittenBranches(branches, obj), branch)
                /\ nextId' = nextId + 2
                /\ IF result(branches')
                   THEN /\ stack' = Pop(advanced)
                        /\ IF Len(stack) = 1 THEN NextCondition
                                             ELSE UNCHANGED <<pc, ci>>
                   ELSE /\ stack' = Append(advanced,
                                      Frame(Top(advanced).gameState, f.condition,
                                            UsedAfter(f.usedCards, freeCard)))
                        /\ UNCHANGED <<pc, ci>>
    /\ UNCHANGED <<conditions, iterations, restored, foreign>>
    /\ UNCHANGED hookVars

\* One pass through the body of the for-of loop of the innermost activation.
PermStep ==
    /\ pc = "perm"
    /\ stack # <<>>
    /\ Top(stack).i <= Len(Top(stack).freeCards)
    /\ LET f == Top(stack)
           freeCard == f.freeCards[f.i]
           newGameState == deepCopy(f.gameState, nextId)
           branch == processFreeCard(SimulationBranch(newGameState, f.condition, nextId + 1),
                                     freeCard)
           obj == branch.gameState
           advanced == [WrittenStack(stack, obj) EXCEPT ![Len(stack)].i = f.i + 1]
       IN  IF ~freeCardIsUsable(f.gameState, freeCard)
           THEN /\ stack' = [stack EXCEPT ![Len(stack)].i = f.i + 1]
                /\ UNCHANGED <<original, gameState, branches, pc, ci, nextId>>
           ELSE /\ original' = Written(original, obj)
                /\ gameState' = Written(gameState, obj)
                /\ branches' = runBranch(WrittenBranches(branches, obj), branch)
                /\ nextId' = nextId + 2
                /\ IF result(branches')
                   THEN /\ stack' = Pop(advanced)
                        /\ IF Len(stack) = 1 THEN NextCondition
                                             ELSE UNCHANGED <<pc, ci>>
                   ELSE /\ stack' = Append(advanced,
                                      Frame(run(branch).gameState, f.condition,
                                            UsedAfter(f.usedCards, freeCard)))
                        /\ UNCHANGED <<pc, ci>>
    /\ UNCHANGED <<conditions, iterations, restored, foreign>>
    /\ UNCHANGED hookVars

\* The innermost activation returns: no candidate at all, or loop exhausted.
PermReturn ==
    /\ pc = "perm"
    /\ stack # <<>>
    /\ Top(stack).i > Len(Top(stack).freeCards)
    /\ stack' = Pop(stack)
    /\ IF Len(stack) = 1 THEN NextCondition ELSE UNCHANGED <<pc, ci>>
    /\ UNCHANGED <<original, gameState, conditions, branches, iterations, restored, foreign, nextId>>
    /\ UNCHANGED hookVars

\* Simulation.deserialise(sim.serialise()) on a simulation at rest.
Deserialise ==
    /\ pc \in {"idle", "done"}
    /\ restored = undefined
    /\ foreign = undefined
    /\ LET sim2 == deserialise(serialise(gameState, conditions, branches), nextId - 1)
       IN  /\ restored' = [gameState |-> sim2.gameState, conditions |-> sim2.conditions,
                           branches |-> sim2.branches]
           /\ nextId' = sim2.nextId
    /\ UNCHANGED <<original, gameState, conditions, branches, pc, ci, stack, iterations,
                   foreign>>
    /\ UNCHANGED hookVars

\* Simulation.deserialise on a serialised simulation that was altered outside
\* the program: foreign keeps the input and what deserialise yields for it.
DeserialiseForeign ==
    /\ pc \in {"idle", "done"}
    /\ restored = undefined
    /\ foreign = undefined
    /\ iterations <= 1
    /\ \E how \in Alterations(serialise(gameState, conditions, branches)) :
          LET input == Altered(serialise(gameState, conditions, branches), how)
              output == deserialise(input, nextId - 1)
          IN  /\ foreign' = [input |-> input, output |-> output]
              /\ nextId' = IF output = DecodeError THEN nextId ELSE output.nextId
    /\ UNCHANGED <<original, gameState, conditions, branches, pc, ci, stack, iterations,
                   restored>>
    /\ UNCHANGED hookVars

Next ==
    Iterate \/ ForEachCondition \/ PermStep \/ PermReturn \/ Deserialise
    \/ DeserialiseForeign

Spec == Init /\ [][Next]_vars

IterateStep == ForEachCondition \/ PermStep \/ PermReturn

\* iterate() is synchronous: once called it runs to its return.
FairSpec == Spec /\ WF_vars(IterateStep)

TypeOK ==
    /\ pc \in {"idle", "forEach", "perm", "done"}
    /\ ci \in 0..(Len(conditions) + 1)
    /\ iterations \in 0..MaxIterations
    /\ (pc = "perm") <=> (stack # <<>>)

(* ----------------- useLocalStorage as a state machine ------------------ *)
\* The first render of a component that uses the hook, in a browser whose
\* localStorage may already hold an entry under the key: useState(readValue).
\* No simulation is running.
HookInit ==
    /\ original = GameState(FirstRef, <<>>, <<>>, <<>>)
    /\ gameState = deepCopy(original, FirstRef + 1)
    /\ conditions = <<>>
    /\ branches = <<>>
    /\ pc = "idle"
    /\ ci = 0
    /\ stack = <<>>
    /\ iterations = 0
    /\ restored = undefined
    /\ foreign = undefined
    /\ nextId = FirstRef + 2
    /\ initialValue \in Values
    /\ item \in {NoItem} \cup { Item(text) : text \in Texts }
    /\ storedValue = readValue(item, initialValue)
    /\ mounted = FALSE
    /\ calls = 0

\* useEffect(() => setStoredValue(readValue()), []): runs once after mount.
MountEffect ==
    /\ ~mounted
    /\ mounted' = TRUE
    /\ storedValue' = readValue(item, initialValue)
    /\ UNCHANGED <<item, initialValue, calls>>
    /\ UNCHANGED simVars

\* setValue(value); throws: localStorage.setItem throws (quota, storage
\* disabled). The state is set before the write, the catch only logs.
SetValue ==
    /\ mounted
    /\ calls < MaxCalls
    /\ \E value \in SameType(initialValue), throws \in BOOLEAN :
          /\ storedValue' = value
          /\ item' = IF throws THEN item ELSE Item(Stringify(value))
    /\ calls' = calls + 1
    /\ UNCHANGED <<initialValue, mounted>>
    /\ UNCHANGED simVars

\* clearStorage(); throws: localStorage.removeItem throws, which skips the
\* setStoredValue that follows it.
ClearStorage ==
    /\ mounted
    /\ calls < MaxCalls
    /\ \E throws \in BOOLEAN :
          IF throws
          THEN UNCHANGED <<storedValue, item>>
          ELSE /\ item' = NoItem
               /\ storedValue' = initialValue
    /\ calls' = calls + 1
    /\ UNCHANGED <<initialValue, mounted>>
    /\ UNCHANGED simVars

HookNext == MountEffect \/ SetValue \/ ClearStorage

HookSpec == HookInit /\ [][HookNext]_vars

(* ============================ claims =================================== *)
\* The first iterate() call of the simulation has returned.
Done1 == pc = "done" /\ iterations = 1

AllBranches(m) == Flat([i \in 1..Len(m) |-> m[i].val])

AnyBranchTrue(m) == \E i \in 1..Len(m) : \E j \in 1..Len(m[i].val) : m[i].val[j].result

OnBaseline(condition) == evaluateCondition(condition, gameState.hand, gameState.deck)

\* Game states reachable from gs by using pairwise distinct free-card
\* instances, each in hand and usable in the state where it is used.
Contents(gs) == [hand |-> gs.hand, deck |-> gs.deck,
                 cardsPlayedThisTurn |-> gs.cardsPlayedThisTurn]

UseCard(gs, card) == processFreeCard([gameState |-> gs], card).gameState

Usable(p) ==
    { c \in Range(p.gs.hand) : c.isFree /\ freeCardIsUsable(p.gs, c) /\ c.id \notin p.used }

RECURSIVE Closure(_)
Closure(S) ==
    LET T == S \cup UNION { { [gs |-> UseCard(p.gs, c), used |-> p.used \cup {c.id}] :
                                c \in Usable(p) } : p \in S }
    IN  IF T = S THEN S ELSE Closure(T)

ReachableStates(gs) == { p.gs : p \in Closure({[gs |-> gs, used |-> {}]}) }

Satisfiable(condition) ==
    \E gs \in ReachableStates(gameState) : evaluateCondition(condition, gs.hand, gs.deck)

\* C1: after iterate(), every condition that holds on the baseline game state
\* has exactly one recorded branch, and result is true.
C1_OneBranchWhenBaselineHolds ==
    Done1 =>
      \A i \in 1..Len(conditions) :
         OnBaseline(conditions[i]) =>
            /\ MapHas(branches, conditions[i])
            /\ Len(MapGet(branches, conditions[i])) = 1
            /\ result(branches)

\* C2: once a recorded branch has result true, the callbacks of the later
\* conditions of the same iterate() call record no further branch.
C2_NoBranchAfterSuccess ==
    [][(iterations = 1 /\ pc = "forEach" /\ result(branches)) => branches' = branches]_vars

\* C3: after iterate(), result is true exactly when some condition of the
\* list is satisfied by a state reachable through usable distinct free cards;
\* otherwise every recorded branch is false and each condition's branches
\* cover the whole reachable space.
C3_ResultIffSatisfiable ==
    pc = "done" =>
      /\ result(branches) <=> \E i \in 1..Len(conditions) : Satisfiable(conditions[i])
      /\ ~(\E i \in 1..Len(conditions) : Satisfiable(conditions[i])) =>
            /\ \A k \in 1..Len(AllBranches(branches)) : ~AllBranches(branches)[k].result
            /\ \A i \in 1..Len(branches) :
                  { Contents(branches[i].val[j].gameState) : j \in 1..Len(branches[i].val) }
                     = { Contents(gs) : gs \in ReachableStates(gameState) }

C3_Witness_Found ==
    /\ pc = "done"
    /\ result(branches)
    /\ \E i \in 1..Len(branches) :
          /\ Len(branches[i].val) >= 3
          /\ Len(branches[i].val[Len(branches[i].val)].gameState.cardsPlayedThisTurn) = 2
          /\ branches[i].val[Len(branches[i].val)].result

C3_Witness_Exhausted ==
    /\ pc = "done"
    /\ ~result(branches)
    /\ \E i \in 1..Len(branches) : Len(branches[i].val) >= 5

\* C4: in every state, of the simulation and of a deserialised one, result is
\* true exactly when some branch recorded under some condition is true.
C4_ResultIsOrOverAllBranches ==
    /\ result(branches) <=> AnyBranchTrue(branches)
    /\ restored # undefined => (result(restored.branches) <=> AnyBranchTrue(restored.branches))

C4_Witness ==
    /\ Len(branches) = 2
    /\ \A j \in 1..Len(branches[1].val) : ~branches[1].val[j].result
    /\ result(branches)
    /\ restored # undefined
    /\ result(restored.branches)

\* Some usable free card of the baseline hand alone makes the condition hold.
OneCardFixes(condition) ==
    \E c \in Range(gameState.hand) :
        /\ c.isFree
        /\ freeCardIsUsable(gameState, c)
        /\ evaluateCondition(condition, UseCard(gameState, c).hand, UseCard(gameState, c).deck)

SuccessEntry(m, k) == successfulBranches(m)[MapIndex(m, k)][2]

BaselineFailsCardFixes(i) ==
    /\ ~OnBaseline(conditions[i])
    /\ OneCardFixes(conditions[i])

TwoBranchesOneSuccess(i) ==
    /\ MapHas(branches, conditions[i])
    /\ Len(MapGet(branches, conditions[i])) >= 2
    /\ SuccessEntry(branches, conditions[i]) # undefined
    /\ SuccessEntry(branches, conditions[i]).result

\* C5 (as stated): after iterate(), a condition that fails on the baseline but
\* that one usable free card fixes has at least 2 branches and a defined,
\* true successfulBranches entry.
C5_OneFreeCardFixes_Original ==
    pc = "done" =>
      \A i \in 1..Len(conditions) : BaselineFailsCardFixes(i) => TwoBranchesOneSuccess(i)

NoEarlierSuccess(i) ==
    \A j \in 1..(i - 1) :
       \A n \in 1..Len(MapGet(branches, conditions[j])) :
          ~MapGet(branches, conditions[j])[n].result

\* C5 (amended): the same, for a condition that no successful branch of an
\* earlier condition of the list precedes.
C5_OneFreeCardFixes ==
    pc = "done" =>
      \A i \in 1..Len(conditions) :
         (BaselineFailsCardFixes(i) /\ NoEarlierSuccess(i)) => TwoBranchesOneSuccess(i)

C5_Witness ==
    /\ pc = "done"
    /\ Len(conditions) = 2
    /\ conditions[1].id # conditions[2].id
    /\ BaselineFailsCardFixes(2)
    /\ NoEarlierSuccess(2)
    /\ TwoBranchesOneSuccess(2)

FreeCount(s) == Len(SelectSeq(s, LAMBDA c : c.isFree))

\* C6 (as stated): the length of usedCards never exceeds the number of free
\* cards in the baseline hand.
C6_DepthWithinHand_Original ==
    \A n \in 1..Len(stack) : Len(stack[n].usedCards) <= FreeCount(gameState.hand)

\* C6 (amended): a running iterate() reaches its end, and the length of
\* usedCards never exceeds the number of free cards in the baseline hand and
\* deck together.
C6_TerminatesDepthWithinHandAndDeck ==
    /\ [](\A n \in 1..Len(stack) :
            Len(stack[n].usedCards) <= FreeCount(gameState.hand) + FreeCount(gameState.deck))
    /\ (pc \in {"forEach", "perm"}) ~> (pc = "done")

C6_Witness ==
    /\ FreeCount(gameState.hand) = 1
    /\ stack # <<>>
    /\ Len(Top(stack).usedCards) = 2
    /\ Len(Top(stack).gameState.deck) < Len(gameState.deck)

CardValue(c) == [name |-> c.name, isFree |-> c.isFree, oncePerTurn |-> c.oncePerTurn,
                 draw |-> c.draw, played |-> c.played]

CardValues(s) == [i \in 1..Len(s) |-> CardValue(s[i])]

GameStateValue(gs) ==
    [hand |-> CardValues(gs.hand), deck |-> CardValues(gs.deck),
     cardsPlayedThisTurn |-> CardValues(gs.cardsPlayedThisTurn)]

ConditionValues(cs) == [i \in 1..Len(cs) |-> cs[i].val]

Results(bs) == [k \in 1..Len(bs) |-> bs[k].result]

RoundTripEqual(r) ==
    /\ ConditionValues(r.conditions) = ConditionValues(conditions)
    /\ Results(AllBranches(r.branches)) = Results(AllBranches(branches))
    /\ GameStateValue(r.gameState) = GameStateValue(gameState)

\* C8: deserialise(serialise(sim)) has the conditions, the flattened branch
\* results (in order) and the baseline game state of sim, by value.
C8_RoundTrip ==
    [][restored' # restored => RoundTripEqual(restored')]_vars

C8_Witness ==
    /\ restored # undefined
    /\ Len(restored.conditions) = 2
    /\ Len(AllBranches(restored.branches)) >= 3
    /\ result(restored.branches)
    /\ ~AllBranches(restored.branches)[1].result
    /\ restored.gameState.hand # <<>>
    /\ restored.gameState.hand[1].id # gameState.hand[1].id

\* The entry (or undefined) that a [condition, branch] view holds for key k.
ViewEntry(view, m, k) == IF MapHas(m, k) THEN view[MapIndex(m, k)][2] ELSE undefined

EntryResult(e) == IF e = undefined THEN "none" ELSE IF e.result THEN "true" ELSE "false"

GroupedViewsEqual(r) ==
    /\ Len(r.branches) = Len(branches)
    /\ Len(r.conditions) = Len(conditions)
    /\ \A i \in 1..Len(conditions) :
          /\ MapHas(r.branches, r.conditions[i]) <=> MapHas(branches, conditions[i])
          /\ MapHas(branches, conditions[i]) /\ MapHas(r.branches, r.conditions[i]) =>
                Results(MapGet(r.branches, r.conditions[i]))
                   = Results(MapGet(branches, conditions[i]))
          /\ EntryResult(ViewEntry(successfulBranches(r.branches), r.branches, r.conditions[i]))
                = EntryResult(ViewEntry(successfulBranches(branches), branches, conditions[i]))
          /\ EntryResult(ViewEntry(failedBranches(r.branches), r.branches, r.conditions[i]))
                = EntryResult(ViewEntry(failedBranches(branches), branches, conditions[i]))
    /\ Len(successfulBranches(r.branches)) = Len(successfulBranches(branches))
    /\ Len(failedBranches(r.branches)) = Len(failedBranches(branches))

\* C9: the round-tripped simulation has the same grouped views: as many
\* condition keys, every condition of the list mapped to a branch list of the
\* same length and results, and successfulBranches / failedBranches with as
\* many entries selecting branches with the same results.
C9_RoundTripGroupedViews ==
    [][restored' # restored => GroupedViewsEqual(restored')]_vars

RECURSIVE FirstFailing(_)
FirstFailing(bs) ==
    IF bs = <<>> THEN undefined
    ELSE IF ~Head(bs).result THEN Head(bs) ELSE FirstFailing(Tail(bs))

RECURSIVE FirstSucceeding(_)
FirstSucceeding(bs) ==
    IF bs = <<>> THEN undefined
    ELSE IF Head(bs).result THEN Head(bs) ELSE FirstSucceeding(Tail(bs))

\* C11: successfulBranches holds one entry per condition that has recorded
\* branches: that condition with its first branch in recorded order whose
\* result is true, or with undefined when none of its branches has result true.
C11_SuccessfulBranchesFirstTrue ==
    /\ Len(successfulBranches(branches)) = Len(branches)
    /\ \A i \in 1..Len(branches) :
          /\ successfulBranches(branches)[i][1] = branches[i].key
          /\ successfulBranches(branches)[i][2] = FirstSucceeding(branches[i].val)
          /\ (\A j \in 1..Len(branches[i].val) : ~branches[i].val[j].result)
                <=> successfulBranches(branches)[i][2] = undefined

\* One condition whose first success is its third branch and is followed by
\* another success, next to a condition without any success.
C11_Witness ==
    /\ pc = "done"
    /\ Len(branches) = 2
    /\ Len(branches[1].val) >= 4
    /\ ~branches[1].val[1].result /\ ~branches[1].val[2].result
    /\ branches[1].val[3].result /\ branches[1].val[4].result
    /\ successfulBranches(branches)[1][2] = branches[1].val[3]
    /\ successfulBranches(branches)[2][2] = undefined

\* The game state objects held by the recorded branches, in recorded order.
BranchStates(m) ==
    [n \in 1..Len(AllBranches(m)) |-> AllBranches(m)[n].gameState]

\* Every recorded branch owns its game state: an object that is neither the
\* caller's original, nor the baseline, nor the state of another branch.
OwnedStates ==
    /\ original.ref # gameState.ref
    /\ \A n \in 1..Len(BranchStates(branches)) :
          /\ BranchStates(branches)[n].ref \notin {original.ref, gameState.ref}
          /\ \A k \in 1..(n - 1) :
                BranchStates(branches)[k].ref # BranchStates(branches)[n].ref

\* A step leaves the caller's original, the baseline, the incoming state of
\* every call that stays active and every branch recorded so far as they were.
StepIsLocal ==
    /\ original' = original
    /\ gameState' = gameState
    /\ \A n \in 1..Len(stack) :
          n <= Len(stack') => stack'[n].gameState = stack[n].gameState
    /\ Len(branches') >= Len(branches)
    /\ \A i \in 1..Len(branches) :
          /\ Len(branches'[i].val) >= Len(branches[i].val)
          /\ \A j \in 1..Len(branches[i].val) :
                branches'[i].val[j].gameState = branches[i].val[j].gameState

\* C12: copy-on-branch isolation. Applying a free card to a branch changes
\* the game state that branch owns and nothing else: the caller's original
\* game state, the baseline of the simulation, the parent state of every
\* active call of generateFreeCardPermutations and the state of every branch
\* recorded before stay unchanged, and no two of the owned states are the
\* same object.
C12_CopyOnBranchIsolation == []OwnedStates /\ [][StepIsLocal]_vars

\* Two free cards were applied one after the other on one path: the branch
\* differs from its parent branch, which differs from the untouched baseline.
C12_Witness ==
    /\ pc = "perm"
    /\ Len(stack) = 3
    /\ Len(stack[3].gameState.cardsPlayedThisTurn) = 2
    /\ Len(stack[2].gameState.cardsPlayedThisTurn) = 1
    /\ stack[1].gameState = gameState
    /\ gameState.cardsPlayedThisTurn = <<>>
    /\ Contents(original) = Contents(gameState)

\* Some card entry or some condition of the serialised simulation, at top
\* level or inside a branch, is one the decoders reject.
MalformedGameState(sgs) ==
    \E part \in {sgs.hand, sgs.deck, sgs.cardsPlayedThisTurn} :
        \E i \in 1..Len(part) : part[i][1] \notin {"A", "H", "K"}

MalformedCondition(sc) == sc[1] # "card"

Malformed(s) ==
    \/ MalformedGameState(s.gameState)
    \/ \E i \in 1..Len(s.conditions) : MalformedCondition(s.conditions[i])
    \/ \E k \in 1..Len(s.branches) :
          \/ MalformedGameState(s.branches[k].gameState)
          \/ MalformedCondition(s.branches[k].condition)

\* C13: Simulation.deserialise fails fast. When the serialised simulation
\* holds a condition or a game state (top level or in a branch) that fails to
\* decode, deserialise yields the decode error and no Simulation; only input
\* that decodes everywhere yields a Simulation, and that one holds every
\* condition and every branch of the input.
C13_DeserialiseFailsFast ==
    foreign # undefined =>
        /\ Malformed(foreign.input) => foreign.output = DecodeError
        /\ ~Malformed(foreign.input) =>
              /\ foreign.output # DecodeError
              /\ Len(foreign.output.conditions) = Len(foreign.input.conditions)
              /\ Len(AllBranches(foreign.output.branches)) = Len(foreign.input.branches)

\* The last of at least three serialised branches is the only malformed part
\* of the input, and deserialise yielded the decode error.
C13_Witness ==
    /\ foreign # undefined
    /\ Len(foreign.input.branches) >= 3
    /\ ~MalformedGameState(foreign.input.gameState)
    /\ \A i \in 1..Len(foreign.input.conditions) :
          ~MalformedCondition(foreign.input.conditions[i])
    /\ \A k \in 1..(Len(foreign.input.branches) - 1) :
          /\ ~MalformedGameState(foreign.input.branches[k].gameState)
          /\ ~MalformedCondition(foreign.input.branches[k].condition)
    /\ MalformedGameState(foreign.input.branches[Len(foreign.input.branches)].gameState)
    /\ foreign.output = DecodeError

\* C14: first success stops the permutation search. Once a branch with
\* result true has been recorded while generateFreeCardPermutations runs for
\* a condition, no further branch is recorded: no remaining sibling at the
\* current or at an ancestor level is explored and no deeper call is made.
C14_FirstSuccessStopsSearch ==
    [][(pc = "perm" /\ result(branches)) => branches' = branches]_vars

\* The contents of the states of the non-empty sequences of distinct usable
\* free cards that start after the cards of used in state gs, in depth-first
\* pre-order: each card of the hand in hand order, followed by everything
\* that starts with it.
RECURSIVE PreOrder(_, _), PreOrderFrom(_, _, _)
PreOrderFrom(gs, used, cards) ==
    IF cards = <<>> THEN <<>>
    ELSE (IF freeCardIsUsable(gs, Head(cards)) /\ ~Includes(used, Head(cards))
          THEN <<Contents(UseCard(gs, Head(cards)))>>
               \o PreOrder(UseCard(gs, Head(cards)), Append(used, Head(cards)))
          ELSE <<>>)
         \o PreOrderFrom(gs, used, Tail(cards))

PreOrder(gs, used) == PreOrderFrom(gs, used, freeCardsInHand(gs))

RECURSIVE Repeat(_, _)
Repeat(s, n) == IF n = 0 THEN <<>> ELSE s \o Repeat(s, n - 1)

\* How often the condition object k occurs in the conditions list.
Occurrences(k) == Cardinality({ i \in 1..Len(conditions) : conditions[i].id = k.id })

\* C15: exhaustive depth-first enumeration when nothing succeeds. When the
\* evaluator gave false for every branch, each pass of iterate() over a
\* condition recorded the baseline branch first and then one branch per
\* non-empty sequence of distinct usable free cards in depth-first pre-order;
\* result is false and the search has completed.
C15_ExhaustivePreOrder ==
    (pc = "done" /\ ~result(branches)) =>
        /\ stack = <<>>
        /\ \A i \in 1..Len(branches) :
              [j \in 1..Len(branches[i].val) |-> Contents(branches[i].val[j].gameState)]
                 = Repeat(<<Contents(gameState)>> \o PreOrder(gameState, <<>>),
                          iterations * Occurrences(branches[i].key))

\* Two free cards F1, F2 that stay usable and a condition that never holds:
\* the five branches baseline, [F1], [F1,F2], [F2], [F2,F1] in this order.
C15_Witness ==
    /\ pc = "done"
    /\ iterations = 1
    /\ ~result(branches)
    /\ Len(branches) = 1
    /\ Len(gameState.hand) = 2
    /\ Len(branches[1].val) = 5
    /\ \A n \in 1..2 : freeCardIsUsable(gameState, gameState.hand[n])
    /\ freeCardIsUsable(UseCard(gameState, gameState.hand[1]), gameState.hand[2])
    /\ freeCardIsUsable(UseCard(gameState, gameState.hand[2]), gameState.hand[1])
    /\ LET F1 == gameState.hand[1]
           F2 == gameState.hand[2]
       IN  /\ Contents(branches[1].val[1].gameState) = Contents(gameState)
           /\ Contents(branches[1].val[2].gameState) = Contents(UseCard(gameState, F1))
           /\ Contents(branches[1].val[3].gameState)
                 = Contents(UseCard(UseCard(gameState, F1), F2))
           /\ Contents(branches[1].val[4].gameState) = Contents(UseCard(gameState, F2))
           /\ Contents(branches[1].val[5].gameState)
                 = Contents(UseCard(UseCard(gameState, F2), F1))
           /\ Contents(branches[1].val[2].gameState) # Contents(branches[1].val[4].gameState)

\* The card the call of frame n applied last: the one before its position i.
Applied(n) == stack[n].freeCards[stack[n].i - 1]

\* C16: along every recursive path of generateFreeCardPermutations no free
\* card instance is twice in usedCards: the cards a level may apply are, by
\* identity, not in its usedCards and are usable on its incoming state, and
\* the usedCards of a deeper level are those of its caller followed by the
\* card the caller applied.
C16_UsedCardsDistinct ==
    \A n \in 1..Len(stack) :
        /\ \A a, b \in 1..Len(stack[n].usedCards) :
              a # b => stack[n].usedCards[a].id # stack[n].usedCards[b].id
        /\ \A k \in 1..Len(stack[n].freeCards) :
              /\ \A a \in 1..Len(stack[n].usedCards) :
                    stack[n].usedCards[a].id # stack[n].freeCards[k].id
              /\ freeCardIsUsable(stack[n].gameState, stack[n].freeCards[k])
        /\ n = 1 => stack[n].usedCards = <<>>
        /\ n > 1 => /\ stack[n - 1].i > 1
                    /\ stack[n].usedCards = Append(stack[n - 1].usedCards, Applied(n - 1))

\* At depth 3 two distinct cards are in usedCards, and one of them is still
\* in the hand of the incoming state, where it is usable but not a candidate.
C16_Witness ==
    /\ Len(stack) = 3
    /\ Len(stack[3].usedCards) = 2
    /\ stack[3].usedCards[1].id # stack[3].usedCards[2].id
    /\ \E a \in 1..2 :
          /\ Includes(stack[3].gameState.hand, stack[3].usedCards[a])
          /\ freeCardIsUsable(stack[3].gameState, stack[3].usedCards[a])
          /\ ~Includes(stack[3].freeCards, stack[3].usedCards[a])

\* What the evaluator says about the branch's condition on its own state.
Verdict(b) == evaluateCondition(b.condition, b.gameState.hand, b.gameState.deck)

\* A branch constructed now for condition c on the baseline state.
NewBranch(c) == SimulationBranch(gameState, c, nextId)

\* The constructor leaves result false; run() stores the evaluator's verdict
\* and leaves the game state and the condition of the branch as they were.
ConstructAndRun ==
    \A i \in 1..Len(conditions) :
        /\ ~NewBranch(conditions[i]).result
        /\ NewBranch(conditions[i]).runs = 0
        /\ run(NewBranch(conditions[i])).result = Verdict(NewBranch(conditions[i]))
        /\ run(NewBranch(conditions[i])).gameState = NewBranch(conditions[i]).gameState
        /\ run(NewBranch(conditions[i])).condition = NewBranch(conditions[i]).condition

\* Every recorded branch was run exactly once and holds the verdict.
RecordedRunOnce ==
    \A k \in 1..Len(AllBranches(branches)) :
        /\ AllBranches(branches)[k].runs = 1
        /\ AllBranches(branches)[k].result = Verdict(AllBranches(branches)[k])

\* A step changes neither the result nor the number of runs of a branch
\* that is already recorded.
ResultsStable ==
    /\ Len(branches') >= Len(branches)
    /\ \A i \in 1..Len(branches) :
          /\ Len(branches'[i].val) >= Len(branches[i].val)
          /\ \A j \in 1..Len(branches[i].val) :
                /\ branches'[i].val[j].result = branches[i].val[j].result
                /\ branches'[i].val[j].runs = branches[i].val[j].runs

\* C17: a branch has result false from construction until run(); run() sets
\* result to the evaluator's verdict on the branch's condition, hand and deck
\* and changes nothing else; every branch recorded during iterate() was run
\* exactly once, before it was recorded, and its result never changes later.
C17_RunOnceBeforeRecorded ==
    [](ConstructAndRun /\ RecordedRunOnce) /\ [][ResultsStable]_vars

\* A branch that a free card changed before it was run to true is recorded
\* next to failing ones, and a later iterate() has added branches since.
C17_Witness ==
    /\ pc = "done"
    /\ iterations = 2
    /\ \E i \in 1..Len(branches) :
          /\ Len(branches[i].val) >= 3
          /\ ~branches[i].val[1].result
          /\ branches[i].val[2].result
          /\ branches[i].val[2].runs = 1
          /\ branches[i].val[2].gameState.cardsPlayedThisTurn # <<>>

\* Sequence s is the beginning of sequence t.
IsPrefix(s, t) == Len(s) <= Len(t) /\ SubSeq(t, 1, Len(s)) = s

\* C18: branches are append-only. Every step keeps the conditions that have
\* an entry, in their order, and the list recorded for each of them before
\* the step is a prefix of its list after the step: no recorded branch is
\* removed, replaced or reordered.
C18_BranchesAppendOnly ==
    [][/\ Len(branches') >= Len(branches)
       /\ \A i \in 1..Len(branches) :
             /\ branches'[i].key = branches[i].key
             /\ IsPrefix(branches[i].val, branches'[i].val)]_vars

\* A second iterate() has ended and the list of a condition holds the five
\* branches of the first call followed by those of the second.
C18_Witness ==
    /\ pc = "done"
    /\ iterations = 2
    /\ Len(branches) = 2
    /\ Len(branches[1].val) = 10
    /\ Len(branches[2].val) >= 2

\* C19: the branch mapping is keyed by the identity of the condition object.
\* No two entries have the same condition object as key, every branch is in
\* the entry of the very condition object it was constructed with, and after
\* iterate() every condition object of the list has an entry of its own, two
\* structurally equal but distinct objects included.
C19_KeyedByIdentity ==
    /\ \A i, k \in 1..Len(branches) : i # k => branches[i].key.id # branches[k].key.id
    /\ \A i \in 1..Len(branches) :
          \A j \in 1..Len(branches[i].val) : branches[i].val[j].condition = branches[i].key
    /\ pc = "done" =>
          /\ { branches[i].key : i \in 1..Len(branches) }
                = { conditions[i] : i \in 1..Len(conditions) }
          /\ Len(branches) = Cardinality({ conditions[i].id : i \in 1..Len(conditions) })

\* Two distinct condition objects with the same content: two entries, each
\* with the branches of its own object.
C19_Witness ==
    /\ pc = "done"
    /\ Len(conditions) = 2
    /\ conditions[1].val = conditions[2].val
    /\ conditions[1].id # conditions[2].id
    /\ Len(branches) = 2
    /\ branches[1].key = conditions[1]
    /\ branches[2].key = conditions[2]
    /\ Len(branches[1].val) >= 2
    /\ Len(branches[2].val) >= 2
    /\ \A j \in 1..Len(branches[2].val) : branches[2].val[j].condition.id = conditions[2].id

\* The branches Simulation.deserialise built from the input, in input order.
ForeignBranches == AllBranches(foreign.output.branches)

\* C20: a deserialised branch has the result of its serialised form, and the
\* evaluator was not called for it, also when the evaluator would give the
\* opposite verdict on the decoded condition and game state.
C20_DeserialisedResultIsPersisted ==
    (foreign # undefined /\ foreign.output # DecodeError) =>
        /\ Len(ForeignBranches) = Len(foreign.input.branches)
        /\ \A k \in 1..Len(ForeignBranches) :
              /\ ForeignBranches[k].result = foreign.input.branches[k].result
              /\ ForeignBranches[k].runs = 0

\* Of three persisted branches the last says true where the evaluator says
\* false on its decoded state, and the first says false as the evaluator does.
C20_Witness ==
    /\ foreign # undefined
    /\ foreign.output # DecodeError
    /\ Len(ForeignBranches) >= 3
    /\ foreign.input.branches[Len(ForeignBranches)].result
    /\ ForeignBranches[Len(ForeignBranches)].result
    /\ ~Verdict(ForeignBranches[Len(ForeignBranches)])
    /\ ~ForeignBranches[1].result
    /\ ~Verdict(ForeignBranches[1])

\* C21: useLocalStorage keeps its value and localStorage in agreement. After
\* any sequence of setValue and clearStorage calls, also ones in which
\* setItem or removeItem throws, the stored value of the hook is what
\* readValue() returns for the key: the decoded entry, or initialValue when
\* the key is absent.
C21_ValueAgreesWithStorage ==
    mounted => storedValue = readValue(item, initialValue)

====
